---- MODULE Spec2Model ----
(***************************************************************************)
(* nxstacker: the NXtomo metadata record (io/nxtomo/metadata.py) and the   *)
(* tomography experiment coordinator (experiment/tomoexpt.py).             *)
(*                                                                         *)
(* Python exceptions are modelled as results: every method is an operator  *)
(* returning [ok, exc, val, calls], where calls is the ordered log of the  *)
(* facility capabilities the method invoked before it returned or raised.  *)
(* Floats are exact rationals [num, den] in lowest terms.                  *)
(***************************************************************************)
EXTENDS Integers, Sequences, FiniteSets, TLC

(* Largest number of projections an experiment accepts in the model. *)
MaxProj == 3

--------------------------------------------------------------------------
(* Values *)

None == [kind |-> "none", key |-> ""]

File(kind, key) == [kind |-> kind, key |-> key]

NoValue == "no value"

RECURSIVE Gcd(_, _)
Gcd(a, b) == IF b = 0 THEN a ELSE Gcd(b, a % b)

(* The float n / d, d > 0, n >= 0. *)
Rat(n, d) == LET g == IF n = 0 THEN d ELSE Gcd(n, d)
             IN [num |-> n \div g, den |-> d \div g]

Ok(v, calls) == [ok |-> TRUE, exc |-> "", val |-> v, calls |-> calls]

Raise(e, calls) == [ok |-> FALSE, exc |-> e, val |-> NoValue, calls |-> calls]

Call(cap, src, key) == [cap |-> cap, src |-> src, key |-> key]

--------------------------------------------------------------------------
(* Projection descriptors: the attributes the two classes read. *)

Projection(scan, proj, descr, raw, fp, px) ==
    [id_scan |-> scan, id_proj |-> proj, description |-> descr,
     raw_dir |-> raw, file_path |-> fp, pixel_size |-> px]

ProjectionPool ==
    { Projection("100", "0001", "", "/raw/a", File("proj", "0001"), 2),
      Projection("100", "0050", "sample B", "/raw/b", None, 4),
      Projection("105", "0002", "", "/raw/c", None, 2),
      Projection("105", "0003", "sample D", "/raw/d", File("proj", "0003"), 3),
      Projection("100", "0004", "", "/raw/e", File("proj", "0004"), 2) }

(* The lists of one to MaxProj distinct projections. *)
ProjectionLists ==
    UNION { { ps \in [1..n -> ProjectionPool] :
                \A i, j \in 1..n : ps[i] = ps[j] => i = j } : n \in 1..MaxProj }

FacilityNames == {"i14", "i08-1", "i13-1", "b24"}

(* Two successive readings of datetime.now(timezone.utc).isoformat(). *)
ClockReadings ==
    { <<"2026-01-01T00:00:00+00:00", "2026-01-01T00:00:00+00:00">>,
      <<"2026-01-01T00:00:00+00:00", "2026-01-01T00:00:01+00:00">> }

--------------------------------------------------------------------------
(* Facility capability interface (nxstacker.facility, an external          *)
(* collaborator): locators return a file or None, extractions return a     *)
(* value or raise.  The tables are one fixed file system.                  *)

nxs_file(p) == IF p.id_proj = "0002" THEN None ELSE File("nxs", p.id_proj)

pty_tomo_file(p) == IF p.id_proj = "0004" THEN None ELSE File("pty", p.id_proj)

position_file(p) == IF p.id_proj = "0050" THEN None ELSE File("pos", p.id_proj)

AngleOf(key) == CASE key = "0001" -> 10
                  [] key = "0050" -> 50
                  [] key = "0002" -> 20
                  [] key = "0003" -> 30
                  [] OTHER -> 40

facility_rotation_angle(src, p) ==
    IF src = None THEN Raise("TypeError", <<>>)
    ELSE Ok(AngleOf(p.id_proj) + (IF src.kind = "pty" THEN 5 ELSE 0), <<>>)

(* sample_detector_dist(source): None[...] raises TypeError; a present     *)
(* file yields its distance, lacks the dataset (TypeError as well) or      *)
(* cannot be read (OSError).                                               *)
facility_sample_detector_dist(src) ==
    CASE src = None -> Raise("TypeError", <<>>)
      [] src = File("proj", "0001") -> Ok(8, <<>>)
      [] src = File("proj", "0003") -> Raise("TypeError", <<>>)
      [] src = File("proj", "0004") -> Raise("OSError", <<>>)
      [] src = File("nxs", "0001") -> Ok(2, <<>>)
      [] src = File("nxs", "0050") -> Ok(4, <<>>)
      [] src = File("nxs", "0003") -> Ok(6, <<>>)
      [] src = File("nxs", "0004") -> Raise("TypeError", <<>>)
      [] OTHER -> Raise("OSError", <<>>)

(* sample_detector_dist() with no source: the facility constant. *)
facility_sample_detector_dist_const == Ok(Rat(7, 1), <<>>)

facility_start_time(src, p) ==
    IF src = None THEN Raise("TypeError", <<>>)
    ELSE Ok("start:" \o src.kind \o "/" \o p.id_proj, <<>>)

facility_end_time(src, p) ==
    IF src = None THEN Raise("TypeError", <<>>)
    ELSE Ok("end:" \o src.kind \o "/" \o p.id_proj, <<>>)

--------------------------------------------------------------------------
(* NXtomoMetadata *)

(* Mutant: the end of the scan range is read from the first projection. *)
start_end_id_scan_first(m) ==
    LET start == m.projections[1].id_scan
    IN m @@ [is_scan_single |-> TRUE,
             scan_start |-> start,
             scan_end |-> start]

start_end_id_scan(m) ==
    LET start == m.projections[1].id_scan
        end == m.projections[Len(m.projections)].id_scan
    IN m @@ [is_scan_single |-> (start = end),
             scan_start |-> start,
             scan_end |-> end]

(* __init__; now0 and now1 are the two readings of the wall clock. *)
NXtomoMetadata_init(projs, fac, now0, now1) ==
    IF Len(projs) = 0
    THEN Raise("IndexError", <<>>)
    ELSE Ok(start_end_id_scan(
              [projections |-> projs,
               facility |-> fac,
               title |-> "title",
               sample_description |-> "sample description",
               rotation_angle |-> [k \in 1..Len(projs) |-> k - 1],
               detector_distance |-> Rat(1, 1),
               x_pixel_size |-> Rat(1, 1),
               y_pixel_size |-> Rat(1, 1),
               start_time |-> now0,
               end_time |-> now1]), <<>>)

to_dict(m) ==
    [title |-> m.title,
     sample_description |-> m.sample_description,
     rotation_angle |-> m.rotation_angle,
     detector_distance |-> m.detector_distance,
     x_pixel_size |-> m.x_pixel_size,
     y_pixel_size |-> m.y_pixel_size,
     start_time |-> m.start_time,
     end_time |-> m.end_time]

--------------------------------------------------------------------------
(* MetadataPtycho *)

title_from_scan(m) ==
    IF m.is_scan_single
    THEN m.scan_start
    ELSE m.scan_start \o "-" \o m.scan_end

description_from_scan(m) ==
    LET descr == m.projections[1].description
        raw_dir == m.projections[1].raw_dir
    IN IF descr # ""
       THEN descr
       ELSE "Tomography experiment at " \o raw_dir \o " with " \o m.title

(* A file finder applied to a projection, with the facility calls it makes. *)
Locate(finder, p) ==
    CASE finder = "nxs_file" ->
           Ok(nxs_file(p), <<Call("nxs_file", nxs_file(p), p.id_proj)>>)
      [] finder = "pty_tomo_file" ->
           Ok(pty_tomo_file(p),
              <<Call("pty_tomo_file", pty_tomo_file(p), p.id_proj)>>)
      [] finder = "position_file" ->
           Ok(position_file(p),
              <<Call("position_file", position_file(p), p.id_proj)>>)
      [] OTHER -> Ok(p.file_path, <<>>)

(* Mutant: an unknown facility falls back to the .nxs locator. *)
rotation_file_finder_default(name) ==
    CASE name = "i13-1" -> "pty_tomo_file"
      [] OTHER -> "nxs_file"

(* Mutant: i13-1 reads the angle from the .nxs file like the others. *)
rotation_file_finder_nxs(name) ==
    CASE name \in {"i14", "i08-1", "i13-1"} -> "nxs_file"
      [] OTHER -> ""

(* match self.facility.name in find_rotation_angle; "" is case _. *)
rotation_file_finder(name) ==
    CASE name = "i14" -> "nxs_file"
      [] name = "i08-1" -> "nxs_file"
      [] name = "i13-1" -> "pty_tomo_file"
      [] OTHER -> ""

RECURSIVE rotation_loop(_, _, _, _, _)
rotation_loop(projs, finder, k, angles, calls) ==
    IF k > Len(projs)
    THEN Ok(angles, calls)
    ELSE LET p == projs[k]
             rot_f == Locate(finder, p)
             r == facility_rotation_angle(rot_f.val, p)
             log == calls \o rot_f.calls
                      \o <<Call("rotation_angle", rot_f.val, p.id_proj)>>
         IN IF r.ok
            THEN rotation_loop(projs, finder, k + 1, Append(angles, r.val), log)
            ELSE Raise(r.exc, log)

find_rotation_angle(m) ==
    LET file_finder == rotation_file_finder(m.facility)
    IN IF file_finder = ""
       THEN Raise("ValueError", <<>>)
       ELSE rotation_loop(m.projections, file_finder, 1, <<>>, <<>>)

(* match self.facility.name in find_detector_dist: the candidate list;     *)
(* <<>> stands for the arms that do not average.                           *)
detector_dist_finders(name) ==
    CASE name = "i14" -> <<"nxs_file">>
      [] name = "i13-1" -> <<"file_path", "nxs_file">>
      [] OTHER -> <<>>

(* try: dist = sample_detector_dist(dist_f); except TypeError: continue *)
dist_handler(r) ==
    IF r.ok THEN "break"
    ELSE IF r.exc = "TypeError" THEN "continue"
    ELSE "raise"

(* The inner loop over the finders for one projection; val is what the     *)
(* projection adds to total.                                               *)
RECURSIVE candidate_loop(_, _, _, _)
candidate_loop(p, finders, i, calls) ==
    IF i > Len(finders)
    THEN Ok(0, calls)
    ELSE LET dist_f == Locate(finders[i], p)
             r == facility_sample_detector_dist(dist_f.val)
             log == calls \o dist_f.calls
                      \o <<Call("sample_detector_dist", dist_f.val, p.id_proj)>>
             how == dist_handler(r)
         IN CASE how = "break" -> Ok(r.val, log)
              [] how = "continue" -> candidate_loop(p, finders, i + 1, log)
              [] OTHER -> Raise(r.exc, log)

distance_of(total, n) == Rat(total, n)

(* Mutant: the mean over the projections that yielded a value. *)
RECURSIVE dist_loop_found(_, _, _, _, _, _)
dist_loop_found(projs, finders, k, total, calls, found) ==
    IF k > Len(projs)
    THEN IF found = 0
         THEN Raise("ZeroDivisionError", calls)
         ELSE Ok(Rat(total, found), calls)
    ELSE LET c == candidate_loop(projs[k], finders, 1, <<>>)
         IN IF c.ok
            THEN dist_loop_found(projs, finders, k + 1, total + c.val,
                                 calls \o c.calls,
                                 found + (IF c.val > 0 THEN 1 ELSE 0))
            ELSE Raise(c.exc, calls \o c.calls)

dist_loop_mean_of_found(projs, finders, k, total, calls) ==
    dist_loop_found(projs, finders, k, total, calls, 0)

RECURSIVE dist_loop(_, _, _, _, _)
dist_loop(projs, finders, k, total, calls) ==
    IF k > Len(projs)
    THEN Ok(distance_of(total, Len(projs)), calls)
    ELSE LET c == candidate_loop(projs[k], finders, 1, <<>>)
         IN IF c.ok
            THEN dist_loop(projs, finders, k + 1, total + c.val, calls \o c.calls)
            ELSE Raise(c.exc, calls \o c.calls)

find_detector_dist(m) ==
    CASE m.facility = "i08-1" ->
           [facility_sample_detector_dist_const EXCEPT
              !.calls = <<Call("sample_detector_dist", None, "")>>]
      [] m.facility \in {"i14", "i13-1"} ->
           dist_loop(m.projections, detector_dist_finders(m.facility),
                     1, 0, <<>>)
      [] OTHER -> Raise("ValueError", <<>>)

RECURSIVE pixel_total(_, _)
pixel_total(projs, k) ==
    IF k > Len(projs) THEN 0
    ELSE projs[k].pixel_size + pixel_total(projs, k + 1)

find_pixel_size(m) ==
    Ok(Rat(pixel_total(m.projections, 1), Len(m.projections)), <<>>)

(* match self.facility.name in start_time_from_scan / end_time_from_scan. *)
time_file_finder(name) ==
    CASE name = "i14" -> "nxs_file"
      [] name = "i08-1" -> "nxs_file"
      [] name = "i13-1" -> "position_file"
      [] OTHER -> ""

start_time_from_scan(m) ==
    LET file_finder == time_file_finder(m.facility)
        start_proj == m.projections[1]
        start_time_f == Locate(file_finder, start_proj)
        r == facility_start_time(start_time_f.val, start_proj)
    IN IF file_finder = ""
       THEN Raise("ValueError", <<>>)
       ELSE [r EXCEPT !.calls = start_time_f.calls
               \o <<Call("start_time", start_time_f.val, start_proj.id_proj)>>]

end_time_from_scan(m) ==
    LET file_finder == time_file_finder(m.facility)
        end_proj == m.projections[Len(m.projections)]
        end_time_f == Locate(file_finder, end_proj)
        r == facility_end_time(end_time_f.val, end_proj)
    IN IF file_finder = ""
       THEN Raise("ValueError", <<>>)
       ELSE [r EXCEPT !.calls = end_time_f.calls
               \o <<Call("end_time", end_time_f.val, end_proj.id_proj)>>]

(* The result of fetch_metadata: md is the record as the call leaves it,   *)
(* step names the assignment that raised ("" when none did).               *)
Fetched(md, r, step, calls) ==
    [ok |-> r.ok, exc |-> r.exc, md |-> md, step |-> step,
     calls |-> calls \o r.calls]

(* fetch_metadata, one operator per assignment, last assignment first;  *)
(* calls is the log of the assignments already made.                      *)
fetch_end_time(m, calls) ==
    LET r == end_time_from_scan(m)
    IN IF r.ok
       THEN Fetched([m EXCEPT !.end_time = r.val], r, "", calls)
       ELSE Fetched(m, r, "end_time", calls)

fetch_start_time(m, calls) ==
    LET r == start_time_from_scan(m)
    IN IF r.ok
       THEN fetch_end_time([m EXCEPT !.start_time = r.val], calls \o r.calls)
       ELSE Fetched(m, r, "start_time", calls)

(* Mutant: y_pixel_size is left as it was. *)
fetch_pixel_size_x_only(m, calls) ==
    fetch_start_time([m EXCEPT !.x_pixel_size = find_pixel_size(m).val],
                     calls)

fetch_pixel_size(m, calls) ==
    LET r == find_pixel_size(m)
    IN fetch_start_time([m EXCEPT !.x_pixel_size = r.val,
                                  !.y_pixel_size = r.val], calls)

fetch_detector_distance(m, calls) ==
    LET r == find_detector_dist(m)
    IN IF r.ok
       THEN fetch_pixel_size([m EXCEPT !.detector_distance = r.val],
                             calls \o r.calls)
       ELSE Fetched(m, r, "detector_distance", calls)

fetch_rotation_angle(m, calls) ==
    LET r == find_rotation_angle(m)
    IN IF r.ok
       THEN fetch_detector_distance([m EXCEPT !.rotation_angle = r.val],
                                    calls \o r.calls)
       ELSE Fetched(m, r, "rotation_angle", calls)

fetch_sample_description(m) ==
    fetch_rotation_angle(
        [m EXCEPT !.sample_description = description_from_scan(m)], <<>>)

(* Mutant: the description is generated before the title is assigned. *)
fetch_metadata_description_first(m) ==
    fetch_rotation_angle(
        [m EXCEPT !.sample_description = description_from_scan(m),
                  !.title = title_from_scan(m)], <<>>)

fetch_metadata(m) ==
    fetch_sample_description([m EXCEPT !.title = title_from_scan(m)])

--------------------------------------------------------------------------
(* TomoExpt *)

short_name == "tomo"

(* Mutant: nothing is removed from the mapping. *)
pop_nothing(d, key) == d

(* md_dict.pop(key), with the KeyError suppressed. *)
pop(d, key) == [k \in DOMAIN d \ {key} |-> d[k]]

(* The file-assembly collaborator (nxstacker.io.nxtomo.minimal): one call  *)
(* with its positional and named arguments.                                *)
create_minimal(filename, stack_shape, stack_dtype, fac, comp, kwargs) ==
    [cap |-> "create_minimal", filename |-> filename,
     stack_shape |-> stack_shape, stack_dtype |-> stack_dtype,
     facility |-> fac, compress |-> comp, kwargs |-> kwargs]

(* Mutant: absent metadata is written as an empty mapping. *)
create_minimal_nxtomo_lenient(md, fac, comp, filename, shape, dtype) ==
    LET md_dict == IF md = None THEN <<>>
                   ELSE pop(to_dict(md), "rotation_angle")
    IN Ok(filename,
          <<create_minimal(filename, shape, dtype, fac, comp, md_dict)>>)

create_minimal_nxtomo(md, fac, comp, filename, stack_shape, stack_dtype) ==
    IF md = None
    THEN Raise("AttributeError", <<>>)
    ELSE LET md_dict == pop(to_dict(md), "rotation_angle")
         IN Ok(filename, <<create_minimal(filename, stack_shape, stack_dtype,
                                          fac, comp, md_dict)>>)

(* Mutant: a single scan is named by its scan range like any other. *)
nxtomo_file_prefix_scan_only(md, projs) ==
    LET common == "tomo_" \o short_name
    IN IF md = None
       THEN Ok(common, <<>>)
       ELSE Ok(common \o "_" \o md.scan_start \o "_" \o md.scan_end, <<>>)

nxtomo_file_prefix(md, projs) ==
    LET common == "tomo_" \o short_name
    IN CASE md = None -> Ok(common, <<>>)
         [] md # None /\ md.is_scan_single /\ Len(projs) = 0 ->
              Raise("IndexError", <<>>)
         [] md # None /\ md.is_scan_single /\ Len(projs) > 0 ->
              Ok(common \o "_" \o md.scan_start \o "_" \o projs[1].id_proj
                   \o "_" \o projs[Len(projs)].id_proj, <<>>)
         [] OTHER -> Ok(common \o "_" \o md.scan_start \o "_" \o md.scan_end,
                        <<>>)

--------------------------------------------------------------------------
(* State *)

VARIABLES
    facility,      \* TomoExpt._facility (its name)
    projections,   \* TomoExpt._projections
    metadata,      \* TomoExpt.metadata: None or the record
    compress,      \* TomoExpt.compress
    extracted,     \* history: a fetch_metadata of the record has completed
    ret            \* the last call: its name, its result, the record before it

vars == <<facility, projections, metadata, compress, extracted, ret>>

Returned(op, r, before) ==
    [op |-> op, ok |-> r.ok, exc |-> r.exc, val |-> r.val, calls |-> r.calls,
     before |-> before]

(* TomoExpt.__init__ *)
Init ==
    /\ facility \in FacilityNames
    /\ projections = <<>>
    /\ metadata = None
    /\ compress = TRUE
    /\ extracted = FALSE
    /\ ret = Returned("__init__", Ok(NoValue, <<>>), None)

(* The discovery step of the experiment fills _projections. *)
ResolveProjections ==
    /\ projections = <<>>
    /\ metadata = None
    /\ \E ps \in ProjectionLists : projections' = ps
    /\ ret' = Returned("find_all_projections", Ok(NoValue, <<>>), metadata)
    /\ UNCHANGED <<facility, metadata, compress, extracted>>

(* self.metadata = MetadataPtycho(self._projections, self.facility) *)
AssignMetadata ==
    /\ metadata = None
    /\ \E now \in ClockReadings :
         LET r == NXtomoMetadata_init(projections, facility, now[1], now[2])
         IN /\ metadata' = IF r.ok THEN r.val ELSE metadata
            /\ ret' = Returned("MetadataPtycho", [r EXCEPT !.val = NoValue],
                               metadata)
    /\ UNCHANGED <<facility, projections, compress, extracted>>

FetchMetadata ==
    /\ metadata # None
    /\ LET r == fetch_metadata(metadata)
       IN /\ metadata' = r.md
          /\ extracted' = (extracted \/ r.ok)
          /\ ret' = [op |-> "fetch_metadata", ok |-> r.ok, exc |-> r.exc,
                     val |-> r.step, calls |-> r.calls, before |-> metadata]
    /\ UNCHANGED <<facility, projections, compress>>

FindRotationAngle ==
    /\ metadata # None
    /\ ret' = Returned("find_rotation_angle", find_rotation_angle(metadata),
                       metadata)
    /\ UNCHANGED <<facility, projections, metadata, compress, extracted>>

FindDetectorDist ==
    /\ metadata # None
    /\ ret' = Returned("find_detector_dist", find_detector_dist(metadata),
                       metadata)
    /\ UNCHANGED <<facility, projections, metadata, compress, extracted>>

StartTimeFromScan ==
    /\ metadata # None
    /\ ret' = Returned("start_time_from_scan", start_time_from_scan(metadata),
                       metadata)
    /\ UNCHANGED <<facility, projections, metadata, compress, extracted>>

EndTimeFromScan ==
    /\ metadata # None
    /\ ret' = Returned("end_time_from_scan", end_time_from_scan(metadata),
                       metadata)
    /\ UNCHANGED <<facility, projections, metadata, compress, extracted>>

ToDict ==
    /\ metadata # None
    /\ ret' = Returned("to_dict", Ok(to_dict(metadata), <<>>), metadata)
    /\ UNCHANGED <<facility, projections, metadata, compress, extracted>>

CreateMinimalNxtomo ==
    /\ ret' = Returned("create_minimal_nxtomo",
                       create_minimal_nxtomo(metadata, facility, compress,
                                             "tomo.nxs", <<1, 1, 1>>, "float32"),
                       metadata)
    /\ UNCHANGED <<facility, projections, metadata, compress, extracted>>

NxtomoFilePrefix ==
    /\ ret' = Returned("_nxtomo_file_prefix",
                       nxtomo_file_prefix(metadata, projections), metadata)
    /\ UNCHANGED <<facility, projections, metadata, compress, extracted>>

Next ==
    \/ ResolveProjections
    \/ AssignMetadata
    \/ FetchMetadata
    \/ FindRotationAngle
    \/ FindDetectorDist
    \/ StartTimeFromScan
    \/ EndTimeFromScan
    \/ ToDict
    \/ CreateMinimalNxtomo
    \/ NxtomoFilePrefix

Spec == Init /\ [][Next]_vars

--------------------------------------------------------------------------
(* Detector-distance averaging *)

Averaging == {"i14", "i13-1"}

Supported == {"i14", "i08-1", "i13-1"}

(* The sources of a projection's candidates, in the order of the list. *)
CandidateSources(name, p) ==
    IF name = "i14" THEN <<nxs_file(p)>> ELSE <<p.file_path, nxs_file(p)>>

PresentCandidates(name, p) ==
    { i \in DOMAIN CandidateSources(name, p) :
        CandidateSources(name, p)[i] # None }

FirstPresent(name, p) ==
    CHOOSE i \in PresentCandidates(name, p) :
        \A j \in PresentCandidates(name, p) : i <= j

(* The first present candidate of p, if any, yields a distance. *)
FirstPresentYields(name, p) ==
    PresentCandidates(name, p) # {} =>
      facility_sample_detector_dist(
          CandidateSources(name, p)[FirstPresent(name, p)]).ok

Contribution(name, p) ==
    IF PresentCandidates(name, p) = {}
    THEN 0
    ELSE facility_sample_detector_dist(
             CandidateSources(name, p)[FirstPresent(name, p)]).val

RECURSIVE SumContributions(_, _, _)
SumContributions(name, projs, k) ==
    IF k > Len(projs) THEN 0
    ELSE Contribution(name, projs[k]) + SumContributions(name, projs, k + 1)

(* How many candidates of p the loop consulted. *)
Consulted(calls, p) ==
    Cardinality({ i \in DOMAIN calls :
                    /\ calls[i].cap = "sample_detector_dist"
                    /\ calls[i].key = p.id_proj })

(* C1: for an averaging facility, when the first present candidate of     *)
(* every projection yields a distance, find_detector_dist returns the sum *)
(* over the projections of the first present candidate's distance (0 for  *)
(* a projection with no present candidate, without an error) divided by   *)
(* the number of projections, and consults no candidate after the first   *)
(* present one.                                                           *)
C1_FirstPresentOverTotal ==
    (/\ ret.op = "find_detector_dist"
     /\ facility \in Averaging
     /\ \A k \in DOMAIN projections :
          FirstPresentYields(facility, projections[k]))
    => /\ ret.ok
       /\ ret.val.num * Len(projections)
            = SumContributions(facility, projections, 1) * ret.val.den
       /\ \A k \in DOMAIN projections :
            Consulted(ret.calls, projections[k])
              = IF PresentCandidates(facility, projections[k]) = {}
                THEN Len(CandidateSources(facility, projections[k]))
                ELSE FirstPresent(facility, projections[k])

(* C1 witness: distances 2 and 4 and one projection without a candidate   *)
(* average to 6/3 = 2.                                                    *)
C1_Witness ==
    /\ ret.op = "find_detector_dist"
    /\ facility = "i14"
    /\ Len(projections) = 3
    /\ \A k \in DOMAIN projections :
         FirstPresentYields(facility, projections[k])
    /\ \E k \in DOMAIN projections :
         PresentCandidates(facility, projections[k]) = {}
    /\ SumContributions(facility, projections, 1) = 6
    /\ ret.ok
    /\ ret.val = [num |-> 2, den |-> 1]

(* C5: a candidate is passed over only when its source is absent: a       *)
(* distance returned by find_detector_dist never rests on a present       *)
(* source whose sample_detector_dist raised.                              *)
C5_OnlyAbsentSkipped ==
    (ret.op = "find_detector_dist" /\ facility \in Averaging /\ ret.ok)
    => \A i \in DOMAIN ret.calls :
         (ret.calls[i].cap = "sample_detector_dist"
            /\ ret.calls[i].src # None)
         => facility_sample_detector_dist(ret.calls[i].src).ok

--------------------------------------------------------------------------
(* Facility dispatch *)

Reductions == {"find_rotation_angle", "find_detector_dist",
               "start_time_from_scan", "end_time_from_scan"}

(* C2: under an unsupported facility each of the four reductions raises   *)
(* ValueError without a value and before any facility call, and so does   *)
(* fetch_metadata.                                                        *)
C2_UnsupportedFacilityRaises ==
    (facility \notin Supported /\ ret.op \in Reductions \cup {"fetch_metadata"})
    => /\ ~ret.ok
       /\ ret.exc = "ValueError"
       /\ ret.calls = <<>>
       /\ ret.op \in Reductions => ret.val = NoValue

(* C2 witness: find_detector_dist called under facility b24. *)
C2_Witness ==
    /\ facility = "b24"
    /\ ret.op = "find_detector_dist"
    /\ ret.exc = "ValueError"

--------------------------------------------------------------------------
(* Writing the minimal file *)

MetadataKeys == {"title", "sample_description", "rotation_angle",
                 "detector_distance", "x_pixel_size", "y_pixel_size",
                 "start_time", "end_time"}

(* C3 as stated: create_minimal_nxtomo succeeds only after a completed    *)
(* fetch_metadata; an earlier call fails and does not reach               *)
(* create_minimal.                                                        *)
C3_OnlyAfterExtraction ==
    (ret.op = "create_minimal_nxtomo" /\ ~extracted)
    => ~ret.ok /\ ret.calls = <<>>

(* C3 amended: create_minimal_nxtomo calls create_minimal once and        *)
(* returns the path whenever a record is assigned, extracted or not; with *)
(* metadata None it raises and create_minimal is not called.              *)
C3_OnlyWithRecord ==
    ret.op = "create_minimal_nxtomo"
    => IF metadata = None
       THEN ~ret.ok /\ ret.exc = "AttributeError" /\ ret.calls = <<>>
       ELSE /\ ret.ok
            /\ ret.val = "tomo.nxs"
            /\ Len(ret.calls) = 1
            /\ ret.calls[1].cap = "create_minimal"
            /\ ret.calls[1].filename = ret.val

(* C3 witness: the file is written from a record still in its draft. *)
C3_Witness ==
    /\ ret.op = "create_minimal_nxtomo"
    /\ ret.ok
    /\ metadata # None
    /\ ~extracted
    /\ metadata.title = "title"
    /\ ret.calls[1].kwargs.title = "title"

(* C6: to_dict has exactly the eight metadata keys, before and after      *)
(* fetch_metadata, and create_minimal receives exactly the other seven    *)
(* with the record's values, never rotation_angle.                        *)
C6_MappingKeys ==
    /\ ret.op = "to_dict"
       => /\ DOMAIN ret.val = MetadataKeys
          /\ DOMAIN ret.val \cap {"scan_start", "scan_end", "is_scan_single"}
               = {}
          /\ \A k \in MetadataKeys : ret.val[k] = metadata[k]
    /\ (ret.op = "create_minimal_nxtomo" /\ ret.ok)
       => /\ DOMAIN ret.calls[1].kwargs = MetadataKeys \ {"rotation_angle"}
          /\ \A k \in MetadataKeys \ {"rotation_angle"} :
               ret.calls[1].kwargs[k] = metadata[k]

(* C6 witness: a file written from an extracted record. *)
C6_Witness ==
    /\ ret.op = "create_minimal_nxtomo"
    /\ ret.ok
    /\ extracted
    /\ "rotation_angle" \notin DOMAIN ret.calls[1].kwargs
    /\ ret.calls[1].kwargs.title = metadata.scan_start

(* C7: the prefix is tomo_<short_name> without metadata, with the scan    *)
(* and the first and last accepted projection ids for a single scan, and  *)
(* with the scan range otherwise.                                         *)
C7_FilePrefix ==
    ret.op = "_nxtomo_file_prefix"
    => /\ ret.ok
       /\ ret.val =
            IF metadata = None
            THEN "tomo_" \o short_name
            ELSE IF metadata.is_scan_single
            THEN "tomo_" \o short_name \o "_" \o metadata.scan_start \o "_"
                   \o Head(projections).id_proj \o "_"
                   \o projections[Len(projections)].id_proj
            ELSE "tomo_" \o short_name \o "_" \o metadata.scan_start \o "_"
                   \o metadata.scan_end

(* C7 witness: scan 100, projections 0001 to 0050. *)
C7_Witness ==
    /\ ret.op = "_nxtomo_file_prefix"
    /\ metadata # None
    /\ Len(projections) > 1
    /\ ret.val = "tomo_tomo_100_0001_0050"

--------------------------------------------------------------------------
(* The metadata record *)

FieldOrder == <<"title", "sample_description", "rotation_angle",
                "detector_distance", "x_pixel_size", "y_pixel_size",
                "start_time", "end_time">>

(* The position in FieldOrder of the assignment that raised. *)
FailedAt(step) == CHOOSE i \in DOMAIN FieldOrder : FieldOrder[i] = step

(* What a fetch_metadata of record m assigns to a field. *)
Extracted(m, field) ==
    CASE field = "title" -> title_from_scan(m)
      [] field = "sample_description" ->
           description_from_scan([m EXCEPT !.title = title_from_scan(m)])
      [] field = "rotation_angle" -> find_rotation_angle(m).val
      [] field = "detector_distance" -> find_detector_dist(m).val
      [] field \in {"x_pixel_size", "y_pixel_size"} -> find_pixel_size(m).val
      [] field = "start_time" -> start_time_from_scan(m).val
      [] OTHER -> end_time_from_scan(m).val

(* C4 as stated: a fetch_metadata that raises leaves all eight fields as  *)
(* they were before the call.                                             *)
C4_AllOrNothing ==
    (ret.op = "fetch_metadata" /\ ~ret.ok)
    => \A k \in MetadataKeys : metadata[k] = ret.before[k]

(* C4 amended: a fetch_metadata that raises has assigned the fields of    *)
(* the steps before the failing one and left the failing step's field and *)
(* every later one as before the call.                                    *)
C4_PrefixAssigned ==
    (ret.op = "fetch_metadata" /\ ~ret.ok)
    => \A i \in DOMAIN FieldOrder :
         metadata[FieldOrder[i]] =
           IF i < FailedAt(ret.val)
           THEN Extracted(ret.before, FieldOrder[i])
           ELSE ret.before[FieldOrder[i]]

(* C4 witness: the end-time step raised on a draft, whose title and       *)
(* rotation angles are extracted already.                                 *)
C4_Witness ==
    /\ ret.op = "fetch_metadata"
    /\ ~ret.ok
    /\ ret.val = "end_time"
    /\ ret.before.title = "title"
    /\ metadata.title # "title"
    /\ metadata.rotation_angle # ret.before.rotation_angle
    /\ metadata.end_time = ret.before.end_time

(* C8: scan_start and scan_end are the first and the last projection's    *)
(* id_scan, is_scan_single says whether they are equal, and               *)
(* fetch_metadata leaves the three as they were.                          *)
C8_ScanRange ==
    metadata # None
    => /\ metadata.scan_start = Head(metadata.projections).id_scan
       /\ metadata.scan_end
            = metadata.projections[Len(metadata.projections)].id_scan
       /\ metadata.is_scan_single = (metadata.scan_start = metadata.scan_end)
       /\ ret.op = "fetch_metadata"
          => /\ metadata.scan_start = ret.before.scan_start
             /\ metadata.scan_end = ret.before.scan_end
             /\ metadata.is_scan_single = ret.before.is_scan_single

(* C8 witness: a record over two scans after a fetch_metadata that        *)
(* raised.                                                                *)
C8_Witness ==
    /\ ret.op = "fetch_metadata"
    /\ ~ret.ok
    /\ Len(metadata.projections) > 1
    /\ ~metadata.is_scan_single
    /\ metadata.scan_start = "100"
    /\ metadata.scan_end = "105"

(* The file the facility's rotation-angle locator returns for p. *)
RotationSource(name, p) ==
    IF name = "i13-1" THEN pty_tomo_file(p) ELSE nxs_file(p)

RotationLocator(name) ==
    IF name = "i13-1" THEN "pty_tomo_file" ELSE "nxs_file"

(* C9: rotation_angle always has one entry per projection: 0..N-1 after   *)
(* construction, and after a successful fetch_metadata entry k is the     *)
(* angle the facility returned for projection k and the file located for  *)
(* it, the projections being visited once each in input order.            *)
C9_RotationAligned ==
    metadata # None
    => LET projs == metadata.projections
           n == Len(projs)
       IN /\ Len(metadata.rotation_angle) = n
          /\ ret.op = "MetadataPtycho"
             => \A k \in 1..n : metadata.rotation_angle[k] = k - 1
          /\ (ret.op = "fetch_metadata" /\ ret.ok)
             => \A k \in 1..n :
                  LET src == RotationSource(facility, projs[k])
                  IN /\ metadata.rotation_angle[k]
                          = facility_rotation_angle(src, projs[k]).val
                     /\ ret.calls[2 * k - 1]
                          = Call(RotationLocator(facility), src,
                                 projs[k].id_proj)
                     /\ ret.calls[2 * k]
                          = Call("rotation_angle", src, projs[k].id_proj)

(* C9 witness: three angles extracted at i13-1 from the located files. *)
C9_Witness ==
    /\ ret.op = "fetch_metadata"
    /\ ret.ok
    /\ facility = "i13-1"
    /\ Len(metadata.projections) = 3
    /\ Len(metadata.rotation_angle) = 3
    /\ metadata.rotation_angle # ret.before.rotation_angle

(* C10: after a successful fetch_metadata the title is the scan or the    *)
(* scan range, and the description is the first projection's or the       *)
(* generated one, which embeds that title.                                *)
C10_TitleThenDescription ==
    (ret.op = "fetch_metadata" /\ ret.ok)
    => LET first == Head(metadata.projections)
       IN /\ metadata.title =
               IF metadata.is_scan_single
               THEN metadata.scan_start
               ELSE metadata.scan_start \o "-" \o metadata.scan_end
          /\ metadata.sample_description =
               IF first.description # ""
               THEN first.description
               ELSE "Tomography experiment at " \o first.raw_dir
                      \o " with " \o metadata.title

(* C10 witness: a generated description over the scan range 100-105,     *)
(* extracted from a draft.                                               *)
C10_Witness ==
    /\ ret.op = "fetch_metadata"
    /\ ret.ok
    /\ ret.before.title = "title"
    /\ metadata.title = "100-105"
    /\ metadata.sample_description
         = "Tomography experiment at /raw/a with 100-105"

====
